---- MODULE Spec2Model ----
(***************************************************************************)
(* Model of asabla/mcp-dataportal: proxy tools that turn typed caller      *)
(* arguments into one HTTP GET against Riksdagen's dokumentlista/dokument  *)
(* endpoints or Skatteverket's rowstore datasets and reshape the answer.   *)
(*                                                                         *)
(* Python strings are sequences of one-character strings, so that          *)
(* startswith / endswith / in / rsplit / strip are computed character by   *)
(* character.  Optional and mixed-type values are tagged records.          *)
(***************************************************************************)
EXTENDS Integers, Sequences, FiniteSets, TLC

VARIABLES c_module, c_value, c_fmt, c_first, c_second, c_pc, inv, calls, clients

vars == <<c_module, c_value, c_fmt, c_first, c_second, c_pc, inv, calls, clients>>

url_vars == <<c_module, c_value, c_fmt, c_first, c_second, c_pc>>

\* the invocations that run at the same time, and the HTTP clients they opened
conc_vars == <<calls, clients>>

-----------------------------------------------------------------------------
(* Bounds of the enumerated inputs *)

\* longest chain of extensions appended to an enumerated reference (".json.txt")
MaxExts == 2

\* most arguments of one invocation that differ from their default
MaxSetArgs == 2

-----------------------------------------------------------------------------
(* Python values *)

Str(s) == [t |-> "str", s |-> s, n |-> 0]

IntV(n) == [t |-> "int", s |-> <<>>, n |-> n]

None == [t |-> "none", s |-> <<>>, n |-> 0]

IsStr(v) == v.t = "str"

EmptyStr == Str(<<>>)

\* bool(v): None, "" and 0 are falsy
Truthy(v) ==
    CASE v.t = "none" -> FALSE
      [] v.t = "str" -> v.s # <<>>
      [] OTHER -> v.n # 0

-----------------------------------------------------------------------------
(* Python str methods *)

StartsWith(s, p) == Len(s) >= Len(p) /\ SubSeq(s, 1, Len(p)) = p

EndsWith(s, p) == Len(s) >= Len(p) /\ SubSeq(s, Len(s) - Len(p) + 1, Len(s)) = p

\* sub in s
Contains(s, sub) ==
    \E i \in 1..(Len(s) - Len(sub) + 1) : SubSeq(s, i, i + Len(sub) - 1) = sub

\* s.rsplit(".", 1)[0]: everything before the last ".", or s when there is none
RSplitDotHead(s) ==
    LET dots == {i \in 1..Len(s) : s[i] = "."}
    IN  IF dots = {} THEN s
        ELSE SubSeq(s, 1, (CHOOSE i \in dots : \A j \in dots : j <= i) - 1)

IsSpace(c) == c \in {" ", "\t", "\n"}

\* s.strip()
Strip(s) ==
    LET keep == {i \in 1..Len(s) : ~IsSpace(s[i])}
    IN  IF keep = {} THEN <<>>
        ELSE SubSeq(s, CHOOSE i \in keep : \A j \in keep : i <= j,
                       CHOOSE i \in keep : \A j \in keep : j <= i)

-----------------------------------------------------------------------------
(* String constants of the source *)

DOCUMENT_BASE_URL ==
    <<"h", "t", "t", "p", "s", ":", "/", "/", "d", "a", "t", "a", ".", "r", "i",
      "k", "s", "d", "a", "g", "e", "n", ".", "s", "e", "/", "d", "o", "k", "u",
      "m", "e", "n", "t", "/">>

DataOrigin ==
    <<"h", "t", "t", "p", "s", ":", "/", "/", "d", "a", "t", "a", ".", "r", "i",
      "k", "s", "d", "a", "g", "e", "n", ".", "s", "e">>

HttpPrefix == <<"h", "t", "t", "p", ":", "/", "/">>

HttpsPrefix == <<"h", "t", "t", "p", "s", ":", "/", "/">>

HttpsScheme == <<"h", "t", "t", "p", "s", ":">>

DokumentSegment == <<"/", "d", "o", "k", "u", "m", "e", "n", "t", "/">>

DotText == <<".", "t", "e", "x", "t">>

DotHtml == <<".", "h", "t", "m", "l">>

DotJson == <<".", "j", "s", "o", "n">>

DotTxt == <<".", "t", "x", "t">>

FmtText == <<"t", "e", "x", "t">>

FmtHtml == <<"h", "t", "m", "l">>

FmtJson == <<"j", "s", "o", "n">>

\* Literal["text", "html", "json"]
Fmts == {FmtText, FmtHtml, FmtJson}

-----------------------------------------------------------------------------
(* URL canonicalizer *)

Raised == [raised |-> TRUE, url |-> <<>>]

\* no call made yet
NoResult == [raised |-> FALSE, url |-> <<>>]

Returned(u) == [raised |-> FALSE, url |-> u]

\* ResolveReference appending no extension to a bare identifier
ResolveReferenceNoExtension(s, fmt) ==
    IF StartsWith(s, HttpPrefix) \/ StartsWith(s, HttpsPrefix) THEN s
    ELSE IF StartsWith(s, <<"/", "/">>) THEN HttpsScheme \o s
    ELSE IF StartsWith(s, <<"/">>) THEN DataOrigin \o s
    ELSE DOCUMENT_BASE_URL \o s

\* ResolveReference testing the single slash before the double slash
ResolveReferenceSlashFirst(s, fmt) ==
    IF StartsWith(s, HttpPrefix) \/ StartsWith(s, HttpsPrefix) THEN s
    ELSE IF StartsWith(s, <<"/">>) THEN DataOrigin \o s
    ELSE IF StartsWith(s, <<"/", "/">>) THEN HttpsScheme \o s
    ELSE DOCUMENT_BASE_URL \o s \o <<".">> \o fmt

\* ResolveReference leaving a root-relative reference as it is
ResolveReferenceRootUnprefixed(s, fmt) ==
    IF StartsWith(s, HttpPrefix) \/ StartsWith(s, HttpsPrefix) THEN s
    ELSE IF StartsWith(s, <<"/", "/">>) THEN HttpsScheme \o s
    ELSE IF StartsWith(s, <<"/">>) THEN s
    ELSE DOCUMENT_BASE_URL \o s \o <<".">> \o fmt

\* the branch that resolves the reference to a URL
ResolveReference(s, fmt) ==
    IF StartsWith(s, HttpPrefix) \/ StartsWith(s, HttpsPrefix) THEN s
    ELSE IF StartsWith(s, <<"/", "/">>) THEN HttpsScheme \o s
    ELSE IF StartsWith(s, <<"/">>) THEN DataOrigin \o s
    ELSE DOCUMENT_BASE_URL \o s \o <<".">> \o fmt

\* CoerceFormat with ".json" left out of the known extensions
CoerceFormatNoJson(url, fmt) ==
    IF Contains(url, DokumentSegment)
    THEN LET u1 == IF EndsWith(url, DotText) \/ EndsWith(url, DotHtml)
                   THEN RSplitDotHead(url) \o <<".">> \o fmt
                   ELSE url
         IN  IF EndsWith(u1, DotTxt)
             THEN SubSeq(u1, 1, Len(u1) - 4) \o DotText
             ELSE u1
    ELSE url

\* the two statements guarded by  if "/dokument/" in url
CoerceFormat(url, fmt) ==
    IF Contains(url, DokumentSegment)
    THEN LET u1 == IF EndsWith(url, DotText) \/ EndsWith(url, DotHtml)
                      \/ EndsWith(url, DotJson)
                   THEN RSplitDotHead(url) \o <<".">> \o fmt
                   ELSE url
         IN  IF EndsWith(u1, DotTxt)
             THEN SubSeq(u1, 1, Len(u1) - 4) \o DotText
             ELSE u1
    ELSE url

\* dokument._normalize_document_url testing  value is None  instead of  not value
dokument_normalize_only_none(value, fmt) ==
    IF value.t = "none" THEN Raised
    ELSE Returned(CoerceFormat(ResolveReference(value.s, fmt), fmt))

\* dokument._normalize_document_url
dokument_normalize_document_url(value, fmt) ==
    IF ~Truthy(value) THEN Raised
    ELSE Returned(CoerceFormat(ResolveReference(value.s, fmt), fmt))

\* kalender._normalize_document_url without its rule for ".txt"
kalender_normalize_keeps_txt(value, fmt) ==
    IF ~Truthy(value) THEN Raised
    ELSE LET s == value.s
             url == IF StartsWith(s, HttpPrefix) \/ StartsWith(s, HttpsPrefix) THEN s
                    ELSE IF StartsWith(s, <<"/", "/">>) THEN HttpsScheme \o s
                    ELSE IF StartsWith(s, <<"/">>) THEN DataOrigin \o s
                    ELSE DOCUMENT_BASE_URL \o s \o <<".">> \o fmt
             u1 == IF Contains(url, DokumentSegment)
                      /\ (EndsWith(url, DotText) \/ EndsWith(url, DotHtml)
                          \/ EndsWith(url, DotJson))
                   THEN RSplitDotHead(url) \o <<".">> \o fmt
                   ELSE url
         IN  Returned(u1)

\* kalender._normalize_document_url
kalender_normalize_document_url(value, fmt) ==
    IF ~Truthy(value) THEN Raised
    ELSE LET s == value.s
             url == IF StartsWith(s, HttpPrefix) \/ StartsWith(s, HttpsPrefix) THEN s
                    ELSE IF StartsWith(s, <<"/", "/">>) THEN HttpsScheme \o s
                    ELSE IF StartsWith(s, <<"/">>) THEN DataOrigin \o s
                    ELSE DOCUMENT_BASE_URL \o s \o <<".">> \o fmt
             u1 == IF Contains(url, DokumentSegment)
                      /\ (EndsWith(url, DotText) \/ EndsWith(url, DotHtml)
                          \/ EndsWith(url, DotJson))
                   THEN RSplitDotHead(url) \o <<".">> \o fmt
                   ELSE url
             u2 == IF Contains(url, DokumentSegment) /\ EndsWith(u1, DotTxt)
                   THEN SubSeq(u1, 1, Len(u1) - 4) \o DotText
                   ELSE u1
         IN  Returned(u2)

Modules == {"dokument", "kalender"}

normalize_document_url(m, value, fmt) ==
    IF m = "dokument" THEN dokument_normalize_document_url(value, fmt)
    ELSE kalender_normalize_document_url(value, fmt)

-----------------------------------------------------------------------------
(* Enumerated references: lead \o directory \o stem \o extensions *)

Leads ==
    { <<>>,
      <<"/">>,
      <<"/", "/", "h", "/">>,
      <<"h", "t", "t", "p", ":", "/", "/", "h", "/">>,
      <<"h", "t", "t", "p", "s", ":", "/", "/", "h", "/">> }

Dirs == { <<>>, <<"d", "o", "k", "u", "m", "e", "n", "t", "/">>, <<"x", "/">> }

Stems == { <<>>, <<"H", "D">> }

Exts == { DotText, DotHtml, DotJson, DotTxt, <<".", "p", "d", "f">> }

RECURSIVE ExtChains(_)
ExtChains(k) ==
    IF k = 0 THEN { <<>> }
    ELSE LET shorter == ExtChains(k - 1)
         IN  shorter \cup { c \o e : c \in shorter, e \in Exts }

References ==
    { Str(l \o d \o s \o x) : l \in Leads, d \in Dirs, s \in Stems,
                              x \in ExtChains(MaxExts) }
    \cup { None }

-----------------------------------------------------------------------------
(* Tools and their arguments *)

RiksdagenListTools == {"list_documents", "list_kalender_handelser", "list_members_ledamot"}

FetchTools == {"fetch_document", "fetch_kalender_handelse"}

TypkodTools ==
    {"get_taxeringsenhet_typkod", "get_taxeringsenhet_typkod_description",
     "list_taxeringsenhet_typkoder"}

FastighetsskattTools == {"search_fastighetsskatt_avgift", "list_fastighetsskatt_avgift"}

RowstoreTools == TypkodTools \cup FastighetsskattTools

Tools == RiksdagenListTools \cup FetchTools \cup RowstoreTools

Mot == <<"m", "o", "t">>

PaddedMot == <<" ", "m", "o", "t", " ">>

Rel == <<"r", "e", "l">>

Desc == <<"d", "e", "s", "c">>

\* str | None arguments: unset, empty, whitespace only, plain, padded
OptStrVals == {None, EmptyStr, Str(<<" ">>), Str(Mot), Str(PaddedMot)}

StrVals == OptStrVals \ {None}

\* a string one longer than max_length allows
TooLong(max) == Str([i \in 1..(max + 1) |-> "x"])

TypkodMaxLength == 5

BeskrivningMaxLength == 100

RequestFilterNames ==
    {"uppdateringsdatum", "gruppering", "statistikterm", "antal", "belopp",
     "grupperingsvarde", "inkomstar"}

\* the argument names of a tool
ArgNames(tool) ==
    CASE tool \in {"list_documents", "list_kalender_handelser"} ->
            {"doktyp", "sok", "rm", "datum", "tom", "organ", "sort", "sortorder"}
      [] tool = "list_members_ledamot" ->
            {"sok", "datum", "tom", "p", "pagesize", "sort", "sortorder"}
      [] tool \in FetchTools -> {"dok_id_or_url", "fmt"}
      [] tool = "get_taxeringsenhet_typkod" -> {"typkod"}
      [] tool = "get_taxeringsenhet_typkod_description" -> {"description"}
      [] tool = "search_fastighetsskatt_avgift" ->
            RequestFilterNames \cup {"_limit", "_offset"}
      [] OTHER -> {"limit", "offset"}

\* the value an argument has when the caller does not vary it
ArgBase(tool, name) ==
    CASE name = "sort" -> Str(Rel)
      [] name = "sortorder" -> Str(Desc)
      [] name = "fmt" -> Str(FmtText)
      [] name = "dok_id_or_url" -> Str(<<"H", "D">>)
      [] name = "typkod" -> Str(<<"1", "2", "0">>)
      [] name = "description" -> Str(Mot)
      [] name \in {"limit", "_limit"} -> IntV(10)
      [] name \in {"offset", "_offset"} -> IntV(0)
      [] OTHER -> None

\* the values the caller may give an argument
ArgValues(tool, name) ==
    CASE name \in {"sort", "sortorder"} -> StrVals \cup {ArgBase(tool, name)}
      [] name = "fmt" -> {Str(f) : f \in Fmts}
      [] name = "dok_id_or_url" ->
            { EmptyStr, Str(<<"H", "D">>),
              Str(<<"/", "d", "o", "k", "u", "m", "e", "n", "t", "/", "H", "D", ".", "t", "x", "t">>),
              Str(<<"/", "/", "h", "/", "d", "o", "k", "u", "m", "e", "n", "t", "/", "H", "D", ".", "h", "t", "m", "l">>),
              Str(<<"h", "t", "t", "p", "s", ":", "/", "/", "h", "/", "x", "/", "H", "D", ".", "j", "s", "o", "n">>) }
      [] name = "typkod" ->
            { EmptyStr, Str(<<" ">>), Str(<<"1", "2", "0">>),
              Str(<<" ", "1", "2", "0", " ">>), TooLong(TypkodMaxLength) }
      [] name = "description" -> StrVals \cup {TooLong(BeskrivningMaxLength)}
      [] name \in {"limit", "_limit"} ->
            {IntV(0), IntV(1), IntV(10), IntV(100), IntV(101), IntV(500)}
      [] name \in {"offset", "_offset"} -> {IntV(-1), IntV(0), IntV(51)}
      [] name \in {"p", "pagesize"} -> {None, IntV(0), IntV(1), IntV(-1), IntV(1000)}
      [] OTHER -> OptStrVals

AllArgValues(tool) == UNION {ArgValues(tool, n) : n \in ArgNames(tool)}

\* every call that varies at most MaxSetArgs arguments
ArgSets(tool) ==
    UNION { { [n \in ArgNames(tool) |-> IF n \in S THEN f[n] ELSE ArgBase(tool, n)] :
                f \in {g \in [S -> AllArgValues(tool)] :
                          \A n \in S : g[n] \in ArgValues(tool, n)} } :
            S \in {T \in SUBSET ArgNames(tool) : Cardinality(T) <= MaxSetArgs} }

-----------------------------------------------------------------------------
(* Parameter normalizers *)

Digit(d) == CASE d = 0 -> "0" [] d = 1 -> "1" [] d = 2 -> "2" [] d = 3 -> "3"
              [] d = 4 -> "4" [] d = 5 -> "5" [] d = 6 -> "6" [] d = 7 -> "7"
              [] d = 8 -> "8" [] OTHER -> "9"

RECURSIVE NatToStr(_)
NatToStr(n) == IF n < 10 THEN <<Digit(n)>> ELSE NatToStr(n \div 10) \o <<Digit(n % 10)>>

\* str(n)
IntToStr(n) == IF n < 0 THEN <<"-">> \o NatToStr(-n) ELSE NatToStr(n)

\* a dict restricted to the keys that pass a filter
Restrict(d, keys) == [k \in keys |-> d[k]]

\* {k: v.strip() if isinstance(v, str) else v for k, v in params.items()}
StripValues(d) == [k \in DOMAIN d |-> IF IsStr(d[k]) THEN Str(Strip(d[k].s)) ELSE d[k]]

\* {k: v for k, v in params.items() if v is not None}
DropNone(d) == Restrict(d, {k \in DOMAIN d : d[k] # None})

\* {k: v for k, v in params.items() if v != ""}
DropEmpty(d) == Restrict(d, {k \in DOMAIN d : d[k] # EmptyStr})

\* the wire name of an optional filter of the dokumentlista request
WireName(name) == IF name = "organ" THEN "org" ELSE name

\* params of dokument.make_request
dokument_params(a) ==
    LET present == {n \in {"doktyp", "sok", "rm", "datum", "tom", "organ"} : Truthy(a[n])}
        fixed == [k \in {"avd", "sort", "sortorder", "utformat"} |->
                    CASE k = "avd" -> Str(<<"d", "o", "k", "u", "m", "e", "n", "t">>)
                      [] k = "sort" -> a.sort
                      [] k = "sortorder" -> a.sortorder
                      [] OTHER -> Str(FmtJson)]
        source(k) == CHOOSE n \in present : WireName(n) = k
    IN  [k \in DOMAIN fixed \cup {WireName(n) : n \in present} |->
            IF k \in DOMAIN fixed THEN fixed[k] ELSE a[source(k)]]

\* params of kalender.make_request
kalender_params(a) ==
    LET present == {n \in {"doktyp", "sok", "rm", "datum", "tom", "organ"} : Truthy(a[n])}
        fixed == [k \in {"avd", "sort", "sortorder", "utformat"} |->
                    CASE k = "avd" -> Str(<<"k", "a", "l", "e", "n", "d", "e", "r">>)
                      [] k = "sort" -> a.sort
                      [] k = "sortorder" -> a.sortorder
                      [] OTHER -> Str(FmtJson)]
        source(k) == CHOOSE n \in present : WireName(n) = k
    IN  [k \in DOMAIN fixed \cup {WireName(n) : n \in present} |->
            IF k \in DOMAIN fixed THEN fixed[k] ELSE a[source(k)]]

\* params of ledamot._make_request
LedamotParams(a) ==
    LET present == {n \in {"sok", "datum", "tom"} : Truthy(a[n])}
                   \cup {n \in {"p", "pagesize"} : a[n] # None}
        fixed == [k \in {"avd", "sort", "sortorder", "utformat"} |->
                    CASE k = "avd" -> Str(<<"l", "e", "d", "a", "m", "o", "t">>)
                      [] k = "sort" -> a.sort
                      [] k = "sortorder" -> a.sortorder
                      [] OTHER -> Str(FmtJson)]
    IN  [k \in DOMAIN fixed \cup present |->
            IF k \in DOMAIN fixed THEN fixed[k]
            ELSE IF k \in {"p", "pagesize"} THEN Str(IntToStr(a[k].n))
            ELSE a[k]]

\* populate_by_name of FastighetsskattAvgiftRequest: its Config sets only
\* allow_population_by_field_name, a key pydantic 2 reports as renamed and does
\* not apply (model_dump exists only in pydantic 2)
populate_by_name == FALSE

\* TaxeringsenhetRequest(typkod=..., beskrivning=..., _limit=..., _offset=...):
\* the names with a leading underscore are private attributes, which the
\* constructor does not take from its keywords and which keep their defaults
TaxeringsenhetRequest(typkod, beskrivning, limit_kw, offset_kw) ==
    [ valid |-> /\ (IsStr(typkod) => Len(typkod.s) <= TypkodMaxLength)
                /\ (IsStr(beskrivning) => Len(beskrivning.s) <= BeskrivningMaxLength),
      typkod |-> typkod,
      beskrivning |-> beskrivning,
      _limit |-> IntV(10),
      _offset |-> IntV(0),
      _callback |-> None ]

\* the request object each typkod tool builds
TypkodRequestOf(tool, a) ==
    CASE tool = "get_taxeringsenhet_typkod" ->
            TaxeringsenhetRequest(a.typkod, EmptyStr, IntV(1), IntV(0))
      [] tool = "get_taxeringsenhet_typkod_description" ->
            TaxeringsenhetRequest(EmptyStr, a.description, IntV(100), IntV(0))
      [] OTHER -> TaxeringsenhetRequest(EmptyStr, EmptyStr, a.limit, a.offset)

\* params of typkoder_taxeringsenheter.make_request
TypkodParams(request) ==
    LET params == [k \in {"typkod", "beskrivning", "_limit", "_offset", "_callback"}
                     |-> request[k]]
    IN  StripValues(DropEmpty(DropNone(params)))

\* alias of a FastighetsskattAvgiftRequest field
Alias(name) == IF name = "grupperingsvarde" THEN "grupperingsvärde" ELSE name

\* the keywords FastighetsskattAvgiftRequest(...) accepts as fields: a field
\* with an alias is populated by its name only under populate_by_name, and the
\* private _limit and _offset are never fields
FieldsSet(tool) ==
    IF tool = "search_fastighetsskatt_avgift"
    THEN {n \in RequestFilterNames : Alias(n) = n \/ populate_by_name}
    ELSE {}

\* request.model_dump(by_alias=True, exclude_none=True, exclude_unset=True)
ModelDump(tool, a) ==
    LET kept == {n \in FieldsSet(tool) : a[n] # None}
        source(k) == CHOOSE n \in kept : Alias(n) = k
    IN  [k \in {Alias(n) : n \in kept} |-> a[source(k)]]

\* params of fastighetsskatt_avgifter.make_request
FastighetsskattParams(tool, a) == StripValues(DropEmpty(ModelDump(tool, a)))

-----------------------------------------------------------------------------
(* One invocation of a tool *)

RIKSDAGEN_API_BASE_URL ==
    <<"h", "t", "t", "p", "s", ":", "/", "/", "d", "a", "t", "a", ".", "r",
      "i", "k", "s", "d", "a", "g", "e", "n", ".", "s", "e", "/", "d", "o",
      "k", "u", "m", "e", "n", "t", "l", "i", "s", "t", "a", "/">>

TYPKOD_API_BASE_URL ==
    <<"h", "t", "t", "p", "s", ":", "/", "/", "s", "k", "a", "t", "t", "e",
      "v", "e", "r", "k", "e", "t", ".", "e", "n", "t", "r", "y", "s", "c",
      "a", "p", "e", ".", "n", "e", "t", "/", "r", "o", "w", "s", "t", "o",
      "r", "e", "/", "d", "a", "t", "a", "s", "e", "t", "/", "0", "d", "b",
      "1", "5", "5", "d", "8", "-", "4", "a", "4", "6", "-", "4", "b", "1",
      "4", "-", "a", "b", "a", "6", "-", "3", "5", "3", "1", "e", "f", "4",
      "1", "4", "1", "c", "7">>

FASTIGHETSSKATT_API_BASE_URL ==
    <<"h", "t", "t", "p", "s", ":", "/", "/", "s", "k", "a", "t", "t", "e",
      "v", "e", "r", "k", "e", "t", ".", "e", "n", "t", "r", "y", "s", "c",
      "a", "p", "e", ".", "n", "e", "t", "/", "r", "o", "w", "s", "t", "o",
      "r", "e", "/", "d", "a", "t", "a", "s", "e", "t", "/", "e", "d", "6",
      "4", "5", "9", "d", "5", "-", "6", "6", "a", "e", "-", "4", "8", "a",
      "7", "-", "b", "c", "c", "8", "-", "4", "b", "d", "1", "2", "8", "f",
      "7", "1", "9", "d", "b">>

AcceptJson == "application/json"

AcceptText == "text/plain, text/html; q=0.9, */*; q=0.8"

Value(kind, n) == [kind |-> kind, n |-> n]

NoValue == Value("none", 0)

\* the "" a tool returns
EmptyString == Value("str", 0)

Pending == [state |-> "pending", exc |-> "", value |-> NoValue]

Return(v) == [state |-> "returned", exc |-> "", value |-> v]

Raise(exc) == [state |-> "raised", exc |-> exc, value |-> NoValue]

NoResponse ==
    [status |-> 0,
     body |-> [kind |-> "none", coll |-> "na", inner |-> "na", limit |-> None, extra |-> "none"]]

NoParams == [k \in {} |-> None]

IdleInvocation ==
    [ pc |-> "idle", tool |-> "", args |-> NoParams, url |-> <<>>, params |-> NoParams,
      accept |-> "", timeout |-> None, client |-> "none", requests |-> 0,
      response |-> NoResponse, outcome |-> Pending ]

Called(tool, args) == [IdleInvocation EXCEPT !.pc = "called", !.tool = tool, !.args = args]

\* the GET issued a second time before the tool suspends
GetTwice(i, url, params, accept, timeout) ==
    [i EXCEPT !.pc = "awaiting", !.url = url, !.params = params, !.accept = accept,
              !.timeout = timeout, !.client = "open", !.requests = i.requests + 2]

\* async with httpx.AsyncClient() as client: await client.get(url, params, headers, timeout)
Get(i, url, params, accept, timeout) ==
    [i EXCEPT !.pc = "awaiting", !.url = url, !.params = params, !.accept = accept,
              !.timeout = timeout, !.client = "open", !.requests = i.requests + 1]

\* the invocation ends: the async with block, if entered, has closed its client
End(i, outcome) ==
    [i EXCEPT !.pc = "done", !.outcome = outcome,
              !.client = IF i.client = "open" THEN "closed" ELSE i.client]

\* the ValueError of the canonicalizer escaping the tool
InvalidReferenceEscapes(i) == End(i, Raise("ValueError"))

\* except Exception as e: await ctx.error(...); return ""
InvalidReference(i) == End(i, Return(EmptyString))

\* a tool from its entry to its first suspension on the network, or to its end
Prepared(i) ==
    LET a == i.args
    IN  CASE i.tool \in FetchTools ->
               LET r == normalize_document_url(
                            IF i.tool = "fetch_document" THEN "dokument" ELSE "kalender",
                            a.dok_id_or_url, a.fmt.s)
               IN  IF r.raised THEN InvalidReference(i)
                   ELSE Get(i, r.url, NoParams,
                            IF a.fmt.s = FmtJson THEN AcceptJson ELSE AcceptText,
                            IntV(30))
          [] i.tool = "list_documents" ->
               Get(i, RIKSDAGEN_API_BASE_URL, dokument_params(a), AcceptJson, IntV(30))
          [] i.tool = "list_kalender_handelser" ->
               Get(i, RIKSDAGEN_API_BASE_URL, kalender_params(a), AcceptJson, IntV(30))
          [] i.tool = "list_members_ledamot" ->
               Get(i, RIKSDAGEN_API_BASE_URL, LedamotParams(a), AcceptJson, IntV(30))
          [] i.tool \in TypkodTools ->
               LET request == TypkodRequestOf(i.tool, a)
               IN  IF ~request.valid THEN End(i, Raise("ValidationError"))
                   ELSE Get(i, TYPKOD_API_BASE_URL, TypkodParams(request), AcceptJson, None)
          [] OTHER ->
               Get(i, FASTIGHETSSKATT_API_BASE_URL, FastighetsskattParams(i.tool, a),
                   AcceptJson, None)

-----------------------------------------------------------------------------
(* Upstream responses and what a tool makes of them *)

\* a body by what it holds; extra names the level at which it carries keys no
\* model declares ("none", "top", "list", "item")
Body(kind, coll, inner, limit) ==
    [kind |-> kind, coll |-> coll, inner |-> inner, limit |-> limit, extra |-> "none"]

\* bodies that are no JSON object: empty, text that is not JSON, a JSON array
PlainBodies ==
    { Body("empty", "na", "na", None), Body("text", "na", "na", None),
      Body("array", "na", "na", None) }

\* {"dokumentlista": ...}: the key absent, null, a string, or an object whose
\* "dokument" is absent, null, [], a list of items, or a list of items that
\* omit declared fields (every field of Dokument and LedamotItem has a default)
DokumentlistaBodies ==
    { Body("object", c, "na", None) : c \in {"absent", "null", "string"} }
    \cup { Body("object", "object", d, None) :
             d \in {"absent", "null", "empty", "items", "partial"} }

\* {"dokument": ...} of the single-document endpoint
DokumentBodies ==
    { Body("object", c, "na", None) : c \in {"absent", "null", "string", "object"} }

\* {"results": ..., "limit": ...} of a rowstore dataset; partial items omit
\* declared fields
RowstoreBodies ==
    { Body("object", c, "na", l) :
        c \in {"absent", "null", "empty", "items", "partial"},
        l \in {None, IntV(10), IntV(100), IntV(500)} }

\* the levels of an object body that can carry undeclared keys: the wrapper,
\* the dokumentlista or dokument object, the items of a list
ExtraLevels(b) ==
    {"top"}
    \cup (IF b.coll = "object" THEN {"list"} ELSE {})
    \cup (IF b.coll \in {"items", "partial"} \/ b.inner \in {"items", "partial"}
          THEN {"item"} ELSE {})

\* the same bodies with keys that no model declares added at one level
WithExtraKeys(bodies) ==
    UNION { { [b EXCEPT !.extra = l] : l \in ExtraLevels(b) } : b \in bodies }

ObjectBodies(tool) ==
    CASE tool \in RiksdagenListTools -> DokumentlistaBodies
      [] tool \in FetchTools -> DokumentBodies
      [] OTHER -> RowstoreBodies

Bodies(tool) == PlainBodies \cup ObjectBodies(tool) \cup WithExtraKeys(ObjectBodies(tool))

\* every model refusing keys it does not declare
ExtraPolicyForbid(tool, level) == "forbid"

\* the extra setting of the model that decodes a level: "allow" in the
\* ledamot models below the wrapper, pydantic's default "ignore" elsewhere
ExtraPolicy(tool, level) ==
    IF tool = "list_members_ledamot" /\ level \in {"list", "item"} THEN "allow"
    ELSE "ignore"

\* validation fails on an undeclared key only under extra = "forbid"
ExtrasAccepted(tool, body) ==
    body.extra = "none" \/ ExtraPolicy(tool, body.extra) # "forbid"

\* a non-2xx answer carries an error page; a 2xx answer any body of the tool
Responses(tool) ==
    { [status |-> st, body |-> Body("text", "na", "na", None)] : st \in {301, 404, 500} }
    \cup { [status |-> 200, body |-> b] : b \in Bodies(tool) }

\* response.raise_for_status() raising only for 4xx and 5xx
RaisesForClientOrServerError(status) == status >= 400

\* response.raise_for_status() raises unless the status is 2xx
RaisesForStatus(status) == ~(200 <= status /\ status <= 299)

\* response.json() raising only on an empty body
JsonFailsOnlyOnEmpty(body) == body.kind = "empty"

\* response.json() raises on a body that is not JSON
JsonFails(body) == body.kind \in {"empty", "text"}

\* number of elements of a decoded list
ItemCount(state) == IF state \in {"items", "partial"} THEN 2 ELSE 0

\* if response.dokumentlista, with a list that is falsy when it has no dokument
ListIsTruthyWhenNonEmpty(body) == body.coll = "object" /\ body.inner = "items"

\* if response.dokumentlista: None is falsy, a model instance is truthy
DokumentlistaIsTruthy(body) == body.coll = "object"

\* the else branch of a list tool returning the (absent) dokumentlista itself
ListToolResult_NoSentinel(kind, body) ==
    Return(Value(kind, IF body.inner \in {"absent", "null"} THEN -1
                       ELSE ItemCount(body.inner)))

\* the tail of list_documents, list_kalender_handelser, list_members_ledamot
ListToolResult(kind, body) ==
    IF DokumentlistaIsTruthy(body)
    THEN Return(Value(kind, IF body.inner \in {"absent", "null"} THEN -1
                            ELSE ItemCount(body.inner)))
    ELSE Return(EmptyString)

\* a list tool that catches the decode error and gives the empty string
RiksdagenListOutcomeRecovers(tool, r) ==
    IF RaisesForStatus(r.status) THEN Raise("HTTPStatusError")
    ELSE IF JsonFails(r.body) \/ r.body.kind = "array" THEN Return(EmptyString)
    ELSE IF r.body.coll = "string" THEN Raise("ValidationError")
    ELSE ListToolResult(IF tool = "list_members_ledamot" THEN "LedamotLista"
                        ELSE "DokumentLista", r.body)

\* make_request and _make_request of the riksdagen list tools, after the GET
RiksdagenListOutcome(tool, r) ==
    IF RaisesForStatus(r.status) THEN Raise("HTTPStatusError")
    ELSE IF JsonFails(r.body) THEN Raise("JSONDecodeError")
    ELSE IF r.body.kind = "array" THEN Raise("AttributeError")
    ELSE IF r.body.coll = "string" \/ ~ExtrasAccepted(tool, r.body)
    THEN Raise("ValidationError")
    ELSE ListToolResult(IF tool = "list_members_ledamot" THEN "LedamotLista"
                        ELSE "DokumentLista", r.body)

\* a fetch tool choosing the shape of its result by what the body holds
FetchOutcomeByBody(fmt, r) ==
    IF RaisesForStatus(r.status) THEN Raise("HTTPStatusError")
    ELSE IF r.body.kind = "object"
    THEN IF r.body.coll = "string" THEN Raise("ValidationError")
         ELSE Return(Value("DokumentDetaljResponse", 0))
    ELSE Return(Value("str", IF r.body.kind = "empty" THEN 0 ELSE 1))

\* fetch_document and fetch_kalender_handelse, after the GET
FetchOutcome(fmt, r) ==
    IF RaisesForStatus(r.status) THEN Raise("HTTPStatusError")
    ELSE IF fmt = FmtJson
    THEN IF JsonFails(r.body) THEN Raise("JSONDecodeError")
         ELSE IF r.body.kind = "array" THEN Raise("AttributeError")
         ELSE IF r.body.coll = "string" \/ ~ExtrasAccepted("fetch_document", r.body)
         THEN Raise("ValidationError")
         ELSE Return(Value("DokumentDetaljResponse", 0))
    ELSE Return(Value("str", IF r.body.kind = "empty" THEN 0 ELSE 1))

\* TaxeringsenhetReponse(**data) and FastighetsskattAvgiftReponse(**data):
\* results must be a list of items that validate, limit must be in 1..100
RowstoreResponseValid(tool, body) ==
    /\ body.coll # "null"
    /\ (body.coll = "partial" => tool \in FastighetsskattTools)
    /\ (body.limit # None => (1 <= body.limit.n /\ body.limit.n <= 100))
    /\ ExtrasAccepted(tool, body)

\* the tail of each rowstore tool
RowstoreToolResult(tool, body) ==
    LET n == ItemCount(body.coll)
    IN  CASE tool = "get_taxeringsenhet_typkod" ->
               IF n > 0 THEN Return(Value("TypKod", 1)) ELSE Return(EmptyString)
          [] tool = "get_taxeringsenhet_typkod_description" -> Return(Value("list", n))
          [] tool = "list_taxeringsenhet_typkoder" -> Return(Value("TaxeringsenhetReponse", n))
          [] OTHER -> Return(Value("FastighetsskattAvgiftReponse", n))

\* make_request of the rowstore tools, after the GET
RowstoreOutcome(tool, r) ==
    IF RaisesForStatus(r.status) THEN Raise("HTTPStatusError")
    ELSE IF JsonFails(r.body) THEN Raise("JSONDecodeError")
    ELSE IF r.body.kind = "array" THEN Raise("TypeError")
    ELSE IF ~RowstoreResponseValid(tool, r.body) THEN Raise("ValidationError")
    ELSE RowstoreToolResult(tool, r.body)

\* a tool from the answer of its GET to its end
Responded(i, r) ==
    End([i EXCEPT !.response = r],
        CASE i.tool \in RiksdagenListTools -> RiksdagenListOutcome(i.tool, r)
          [] i.tool \in FetchTools -> FetchOutcome(i.args.fmt.s, r)
          [] OTHER -> RowstoreOutcome(i.tool, r))

-----------------------------------------------------------------------------
(* Specification of the tools: one invocation after another *)

\* no invocation runs beside the one of inv
NoCalls == [id \in {} |-> IdleInvocation]

Init ==
    /\ inv = IdleInvocation
    /\ c_module = "dokument"
    /\ c_value = None
    /\ c_fmt = FmtText
    /\ c_first = NoResult
    /\ c_second = NoResult
    /\ c_pc = "unused"
    /\ calls = NoCalls
    /\ clients = {}

\* a caller invokes a tool
Call ==
    /\ inv.pc = "idle"
    /\ \E tool \in Tools : \E args \in ArgSets(tool) : inv' = Called(tool, args)
    /\ UNCHANGED <<url_vars, conc_vars>>

\* the tool runs up to its GET, or ends before it
Prepare ==
    /\ inv.pc = "called"
    /\ inv' = Prepared(inv)
    /\ UNCHANGED <<url_vars, conc_vars>>

\* the upstream answers and the tool runs to its end
Respond ==
    /\ inv.pc = "awaiting"
    /\ \E r \in Responses(inv.tool) : inv' = Responded(inv, r)
    /\ UNCHANGED <<url_vars, conc_vars>>

\* the GET fails to connect or times out
Fail ==
    /\ inv.pc = "awaiting"
    /\ inv' = End(inv, Raise("TransportError"))
    /\ UNCHANGED <<url_vars, conc_vars>>

\* the result is handed to the caller and the invocation is gone
Finish ==
    /\ inv.pc = "done"
    /\ inv' = IdleInvocation
    /\ UNCHANGED <<url_vars, conc_vars>>

Next == Call \/ Prepare \/ Respond \/ Fail \/ Finish

Spec == Init /\ [][Next]_vars

-----------------------------------------------------------------------------
(* Properties of the tools, under Spec *)

\* the query parameter an argument is sent as
ArgWireName(name) ==
    CASE name = "organ" -> "org"
      [] name = "grupperingsvarde" -> "grupperingsvärde"
      [] name = "description" -> "beskrivning"
      [] name = "limit" -> "_limit"
      [] name = "offset" -> "_offset"
      [] OTHER -> name

Sent == inv.requests > 0

Answered == inv.pc = "done" /\ inv.response # NoResponse

\* a 2xx answer whose body is a JSON object that validates apart from its collection
DecodableObject ==
    /\ Answered
    /\ inv.response.status = 200
    /\ inv.response.body.kind = "object"
    /\ inv.response.body.coll # "string"
    /\ inv.response.body.limit # IntV(500)

CollectionAbsent == inv.response.body.coll = "absent"

\* the collection is there and has no element
CollectionEmpty ==
    IF inv.tool \in RiksdagenListTools
    THEN inv.response.body.coll = "object" /\ inv.response.body.inner = "empty"
    ELSE inv.response.body.coll = "empty"

ListModelOf(tool) == IF tool = "list_members_ledamot" THEN "LedamotLista" ELSE "DokumentLista"

\* C1: the query parameters of every GET hold no empty string, and nothing
\* for an argument that was None.
C1_NoEmptyOrUnsetParam ==
    Sent =>
        /\ \A k \in DOMAIN inv.params : inv.params[k] # EmptyStr /\ inv.params[k] # None
        /\ \A n \in DOMAIN inv.args :
              inv.args[n] = None => ArgWireName(n) \notin DOMAIN inv.params

\* C5: every string argument that is sent is sent stripped of its leading and
\* trailing whitespace, and every numeric argument that is sent is sent with
\* its own value.
C5_StringsStrippedOthersUnchanged ==
    Sent =>
        \A n \in DOMAIN inv.args :
            ArgWireName(n) \in DOMAIN inv.params =>
                LET sent == inv.params[ArgWireName(n)]
                    given == inv.args[n]
                IN  /\ IsStr(given) => sent = Str(Strip(given.s))
                    /\ given.t = "int" => (sent = given \/ sent = Str(IntToStr(given.n)))

\* C6: a non-2xx answer ends the invocation of any tool with the raised status
\* error, with no value returned and one request made in all.
C6_NonSuccessStatusIsFatal ==
    (Answered /\ ~(inv.response.status \in 200..299))
    => inv.outcome = Raise("HTTPStatusError") /\ inv.requests = 1

\* fetch_document got a 301 and raised
C6_Witness ==
    /\ inv.pc = "done"
    /\ inv.tool = "fetch_document"
    /\ inv.response.status = 301
    /\ inv.outcome.state = "raised"
    /\ inv.requests = 1

ReferenceRejected ==
    /\ inv.tool \in FetchTools
    /\ inv.pc \in {"awaiting", "done"}
    /\ ~Truthy(inv.args.dok_id_or_url)

\* C10: a fetch tool given a reference the canonicalizer rejects returns the
\* empty string and makes no request.
C10_RejectedReferenceReturnsEmpty ==
    ReferenceRejected
    => /\ inv.pc = "done"
       /\ inv.outcome = Return(EmptyString)
       /\ inv.requests = 0
       /\ inv.client = "none"
       /\ inv.response = NoResponse

\* fetch_kalender_handelse was given "" and returned "" without a request
C10_Witness ==
    /\ inv.pc = "done"
    /\ inv.tool = "fetch_kalender_handelse"
    /\ inv.args.dok_id_or_url = EmptyStr
    /\ inv.outcome = Return(EmptyString)
    /\ inv.requests = 0

\* the GET failed to connect or timed out
TransportFailed == inv.pc = "done" /\ inv.requests > 0 /\ inv.response = NoResponse

NonSuccessStatus == Answered /\ ~(inv.response.status \in 200..299)

\* the tool decodes the body of its answer as JSON
DecodesJson == inv.tool \notin FetchTools \/ inv.args.fmt.s = FmtJson

\* a 2xx answer whose body is no JSON, to a tool that decodes it
MalformedJson ==
    /\ Answered
    /\ inv.response.status = 200
    /\ inv.response.body.kind \in {"empty", "text"}
    /\ DecodesJson

ReachedFetcher == inv.pc \in {"awaiting", "done"} /\ inv.client # "none"

\* C12: an invocation that reaches the GET has made exactly one request,
\* while it waits and when it has ended, however it ended.
C12_ExactlyOneGet == ReachedFetcher => inv.requests = 1

\* C12, the other direction: an invocation that ended before its GET made none
C12_NoGetBeforeFetcher == (inv.pc = "done" /\ ~ReachedFetcher) => inv.requests = 0

\* get_taxeringsenhet_typkod ended on a decode error after its one request
C12_Witness ==
    /\ inv.pc = "done"
    /\ inv.tool = "get_taxeringsenhet_typkod"
    /\ inv.outcome = Raise("JSONDecodeError")
    /\ inv.requests = 1

\* C13: every GET a tool issues carries the timeout of 30 and an Accept header
C13_TimeoutAndAcceptOnEveryGet ==
    Sent => inv.timeout = IntV(30) /\ inv.accept \in {AcceptJson, AcceptText}

\* the number a sent parameter stands for: an int as it is, a string by int()
SentNumber(v) ==
    IF IsStr(v) THEN CHOOSE n \in -1000..1000 : IntToStr(n) = v.s ELSE v.n

\* C14: every page-size or limit parameter of a request lies between 1 and
\* the largest provider maximum, 500, and every page or offset parameter is
\* not negative.
C14_PaginationWithinBounds ==
    Sent =>
        /\ \A k \in DOMAIN inv.params \cap {"pagesize", "_limit"} :
              1 <= SentNumber(inv.params[k]) /\ SentNumber(inv.params[k]) <= 500
        /\ \A k \in DOMAIN inv.params \cap {"p", "_offset"} :
              0 <= SentNumber(inv.params[k])

\* C14 for the rowstore tools alone, whatever limit and offset the caller
\* gives: the private defaults 10 and 0 are what is sent, when anything is
C14_RowstorePaginationIsDefault ==
    (Sent /\ inv.tool \in RowstoreTools) =>
        /\ "_limit" \in DOMAIN inv.params => inv.params["_limit"] = IntV(10)
        /\ "_offset" \in DOMAIN inv.params => inv.params["_offset"] = IntV(0)

\* a 2xx JSON object in which every declared field is either present with a
\* valid value or left out, at the top level and in each item
OmitsDeclaredFieldsOnly ==
    /\ Answered
    /\ inv.response.status = 200
    /\ inv.response.body.kind = "object"
    /\ inv.response.body.coll \in {"absent", "empty", "items", "partial", "object"}
    /\ inv.response.body.inner \in {"na", "absent", "empty", "items", "partial"}
    /\ inv.response.body.limit \in {None, IntV(10)}

\* C15: a payload that only omits declared fields, in itself or in its items,
\* is decoded and the tool returns, for every response model.
C15_MissingFieldsDecode == OmitsDeclaredFieldsOnly => inv.outcome.state = "returned"

\* C15 with TypKod set aside: omissions fail to decode only for the typkod
\* tools given result items that omit typkod or beskrivning
C15_MissingFieldsDecodeExceptTypKod ==
    OmitsDeclaredFieldsOnly =>
        (inv.outcome.state = "returned"
            <=> ~(inv.tool \in TypkodTools /\ inv.response.body.coll = "partial"))

\* C19: a fetch tool that returns after its GET returns the shape its fmt
\* names, whatever the body holds: for json the decoded structure, asked for
\* with Accept: application/json; for text and html the body as a string.
C19_ShapeSelectedByFormat ==
    (inv.tool \in FetchTools /\ Answered /\ inv.outcome.state = "returned") =>
        IF inv.args.fmt.s = FmtJson
        THEN inv.outcome.value.kind = "DokumentDetaljResponse" /\ inv.accept = AcceptJson
        ELSE inv.outcome.value.kind = "str" /\ inv.accept = AcceptText

\* fetch_document with fmt html got a JSON object and returned it as a string
C19_Witness ==
    /\ inv.tool = "fetch_document"
    /\ Answered
    /\ inv.args.fmt.s = FmtHtml
    /\ inv.response.body = Body("object", "object", "na", None)
    /\ inv.outcome = Return(Value("str", 1))

\* the arguments whose name differs from the name they have on the wire
AliasedArgs == {"grupperingsvarde", "organ"}

\* C20: an argument whose wire name differs from its name is sent under the
\* wire name when it is given, and its own name is never a key of the params.
C20_AliasedFieldsUnderWireName ==
    Sent =>
        \A n \in DOMAIN inv.args \cap AliasedArgs :
            /\ n \notin DOMAIN inv.params
            /\ Truthy(inv.args[n]) => ArgWireName(n) \in DOMAIN inv.params

\* C20 without grupperingsvarde: organ is sent as org, and neither internal
\* name is ever a key
C20_OrganSentAsOrg ==
    Sent =>
        /\ \A n \in DOMAIN inv.args \cap AliasedArgs : n \notin DOMAIN inv.params
        /\ ("organ" \in DOMAIN inv.args /\ Truthy(inv.args.organ))
              => ("org" \in DOMAIN inv.params /\ inv.params["org"] = inv.args.organ)

\* what becomes of grupperingsvarde: it is never sent under any name
C20_GrupperingsvardeNeverSent ==
    Sent => DOMAIN inv.params \cap {"grupperingsvarde", "grupperingsvärde"} = {}

\* the arguments that are numbers
NumericArgs == {"p", "pagesize", "limit", "offset", "_limit", "_offset"}

\* C21: a numeric argument the caller sets to 0 is in the parameters of the
\* request, under its wire name, with the value 0.
C21_ZeroIsSent ==
    Sent =>
        \A n \in DOMAIN inv.args \cap NumericArgs :
            inv.args[n] = IntV(0) =>
                /\ ArgWireName(n) \in DOMAIN inv.params
                /\ SentNumber(inv.params[ArgWireName(n)]) = 0

\* C21 where the caller's number gets as far as the empty-string filter: p
\* and pagesize of 0 are sent as "0", and the _offset of 0 that every
\* typkoder request holds passes the filter
C21_ZeroPassesTheEmptyFilter ==
    Sent =>
        /\ \A n \in DOMAIN inv.args \cap {"p", "pagesize"} :
              inv.args[n] = IntV(0) =>
                  (n \in DOMAIN inv.params /\ inv.params[n] = Str(<<"0">>))
        /\ inv.tool \in TypkodTools =>
              ("_offset" \in DOMAIN inv.params /\ inv.params["_offset"] = IntV(0))

\* a 2xx answer to a tool that decodes JSON, whose body is no JSON or is JSON
\* but not an object
NotAJsonObject ==
    /\ Answered
    /\ inv.response.status = 200
    /\ DecodesJson
    /\ inv.response.body.kind \in {"empty", "text", "array"}

\* C24: a 2xx body that is no JSON, or no JSON object, where the tool decodes
\* JSON, ends the invocation with the error raised while decoding, after its
\* one request; it never gives the empty string or any other result.
C24_UndecodableBodyIsFatal ==
    NotAJsonObject =>
        /\ inv.outcome.state = "raised"
        /\ inv.outcome.exc \in {"JSONDecodeError", "AttributeError", "TypeError"}
        /\ inv.outcome.value = NoValue
        /\ inv.requests = 1

\* fetch_document asked for json got a JSON array and raised
C24_Witness ==
    /\ inv.pc = "done"
    /\ inv.tool = "fetch_document"
    /\ inv.args.fmt.s = FmtJson
    /\ inv.response = [status |-> 200, body |-> Body("array", "na", "na", None)]
    /\ inv.outcome = Raise("AttributeError")

\* a 2xx JSON object that carries keys no model declares
HasExtraKeys ==
    /\ Answered
    /\ inv.response.status = 200
    /\ inv.response.body.kind = "object"
    /\ inv.response.body.extra # "none"

\* the answer without its undeclared keys
WithoutExtraKeys(r) == [r EXCEPT !.body.extra = "none"]

\* C25: keys that no model declares, at the top level, in the list object or
\* in the items, change nothing: the invocation ends as it ends for the same
\* body without them, so a decodable body stays decodable with equal values.
C25_UnknownFieldsTolerated ==
    HasExtraKeys =>
        inv.outcome = Responded(Prepared(Called(inv.tool, inv.args)),
                                WithoutExtraKeys(inv.response)).outcome

\* list_taxeringsenhet_typkoder decoded items that carry undeclared keys
C25_Witness ==
    /\ inv.pc = "done"
    /\ inv.tool = "list_taxeringsenhet_typkoder"
    /\ inv.response.body = [Body("object", "items", "na", IntV(10)) EXCEPT !.extra = "item"]
    /\ inv.outcome = Return(Value("TaxeringsenhetReponse", 2))

\* C26: the list tools of the rowstore send the caller's limit and offset as
\* _limit and _offset, get_taxeringsenhet_typkod sends _limit = 1 and
\* get_taxeringsenhet_typkod_description sends _limit = 100.
C26_PaginationReachesTheWire ==
    Sent =>
        /\ inv.tool \in {"list_taxeringsenhet_typkoder", "list_fastighetsskatt_avgift"} =>
              /\ {"_limit", "_offset"} \subseteq DOMAIN inv.params
              /\ inv.params["_limit"] = inv.args.limit
              /\ inv.params["_offset"] = inv.args.offset
        /\ inv.tool = "get_taxeringsenhet_typkod" =>
              ("_limit" \in DOMAIN inv.params /\ inv.params["_limit"] = IntV(1))
        /\ inv.tool = "get_taxeringsenhet_typkod_description" =>
              ("_limit" \in DOMAIN inv.params /\ inv.params["_limit"] = IntV(100))

\* what is sent instead: the typkoder tools always send 10 and 0, the
\* fastighetsskatt tools send no pagination parameter
C26_PaginationIsNeverTheCallers ==
    Sent =>
        /\ inv.tool \in TypkodTools =>
              /\ {"_limit", "_offset"} \subseteq DOMAIN inv.params
              /\ inv.params["_limit"] = IntV(10)
              /\ inv.params["_offset"] = IntV(0)
        /\ inv.tool \in FastighetsskattTools =>
              DOMAIN inv.params \cap {"_limit", "_offset", "limit", "offset"} = {}

\* C27: every request of get_taxeringsenhet_typkod has a typkod parameter
\* that is not empty and equals the caller's argument without its
\* surrounding whitespace.
C27_TypkodFilterAlwaysSent ==
    (Sent /\ inv.tool = "get_taxeringsenhet_typkod") =>
        /\ "typkod" \in DOMAIN inv.params
        /\ inv.params["typkod"] = Str(Strip(inv.args.typkod.s))
        /\ inv.params["typkod"].s # <<>>

\* C27 for the arguments that hold something besides whitespace
C27_TypkodFilterSentWhenNotBlank ==
    (Sent /\ inv.tool = "get_taxeringsenhet_typkod" /\ Strip(inv.args.typkod.s) # <<>>) =>
        /\ "typkod" \in DOMAIN inv.params
        /\ inv.params["typkod"] = Str(Strip(inv.args.typkod.s))

\* the unfiltered listing: called with "", the tool sent no typkod and
\* returned the first item of whatever list the answer held
C27_UnfilteredFirstItemReturned ==
    /\ inv.tool = "get_taxeringsenhet_typkod"
    /\ inv.args.typkod = EmptyStr
    /\ Answered
    /\ "typkod" \notin DOMAIN inv.params
    /\ inv.outcome = Return(Value("TypKod", 1))

\* the limit a fastighetsskatt tool was called with
CallersLimit ==
    IF inv.tool = "search_fastighetsskatt_avgift" THEN inv.args["_limit"] ELSE inv.args.limit

\* a 2xx answer to a fastighetsskatt tool that holds the caller's limit in
\* its limit field and is valid in everything else
LimitEchoed ==
    /\ inv.tool \in FastighetsskattTools
    /\ Answered
    /\ inv.response.status = 200
    /\ inv.response.body.kind = "object"
    /\ inv.response.body.coll \in {"absent", "empty", "items", "partial"}
    /\ inv.response.body.limit = CallersLimit

\* C28: a limit that FastighetsskattAvgiftRequest declares valid (1..500),
\* echoed in the limit field of the answer, never makes the answer fail its
\* validation.
C28_EchoedLimitAccepted ==
    (LimitEchoed /\ 1 <= CallersLimit.n /\ CallersLimit.n <= 500)
    => inv.outcome.state = "returned"

\* C28 up to the bound of the response model: an echoed limit of 1..100 passes
C28_EchoedLimitAcceptedUpTo100 ==
    (LimitEchoed /\ 1 <= CallersLimit.n /\ CallersLimit.n <= 100)
    => inv.outcome.state = "returned"

Dokument == <<"d", "o", "k", "u", "m", "e", "n", "t">>

Kalender == <<"k", "a", "l", "e", "n", "d", "e", "r">>

\* C29: for the arguments of any invocation, the canonicalizers of dokument
\* and kalender give the same URL or both raise, and the parameters built by
\* dokument.make_request and kalender.make_request have the same keys and
\* the same values except avd, which is dokument in one and kalender in the
\* other.
C29_CopiesEquivalent ==
    inv.pc # "idle" =>
        /\ inv.tool \in FetchTools =>
              dokument_normalize_document_url(inv.args.dok_id_or_url, inv.args.fmt.s)
              = kalender_normalize_document_url(inv.args.dok_id_or_url, inv.args.fmt.s)
        /\ inv.tool \in {"list_documents", "list_kalender_handelser"} =>
              LET d == dokument_params(inv.args)
                  k == kalender_params(inv.args)
              IN  /\ DOMAIN d = DOMAIN k
                  /\ \A key \in DOMAIN d \ {"avd"} : d[key] = k[key]
                  /\ d.avd = Str(Dokument)
                  /\ k.avd = Str(Kalender)

\* fetch_kalender_handelse asked for html resolved /dokument/HD.txt, and its
\* GET goes to the URL that dokument's canonicalizer gives as well
C29_Witness ==
    /\ inv.tool = "fetch_kalender_handelse"
    /\ inv.pc = "awaiting"
    /\ inv.args.fmt.s = FmtHtml
    /\ inv.args.dok_id_or_url.s = <<"/">> \o Dokument \o <<"/", "H", "D", ".", "t", "x", "t">>
    /\ inv.url = dokument_normalize_document_url(inv.args.dok_id_or_url, FmtHtml).url

-----------------------------------------------------------------------------
(* Specification of invocations that run at the same time.  Each is a       *)
(* coroutine of one event loop: it runs alone between two awaits, and       *)
(* another one may run at every await (the log call after the parameters    *)
(* are built, the GET).                                                     *)

\* most invocations in progress at once
MaxInvocations == 2

Ids == 1..MaxInvocations

BaseArgs(tool) == [n \in ArgNames(tool) |-> ArgBase(tool, n)]

\* the invocations that overlap: each kind of tool with its default
\* arguments, a ledamot page, and two that end before any GET
ConcurrentCalls ==
    { Called(tool, BaseArgs(tool)) :
        tool \in {"list_documents", "fetch_document", "get_taxeringsenhet_typkod",
                  "list_fastighetsskatt_avgift"} }
    \cup { Called("list_members_ledamot",
                  [BaseArgs("list_members_ledamot") EXCEPT !.p = IntV(1)]),
           Called("fetch_kalender_handelse",
                  [BaseArgs("fetch_kalender_handelse") EXCEPT !.dok_id_or_url = EmptyStr]) }

\* the answers given to overlapping invocations: an error status, a 2xx that
\* is no JSON, and the 2xx objects with and without their collection
ConcurrentResponses(tool) ==
    { r \in Responses(tool) :
        \/ r.status = 500
        \/ r.status = 200 /\ r.body.kind = "text"
        \/ /\ r.status = 200 /\ r.body.kind = "object"
           /\ r.body.coll \in {"absent", "items", "object"}
           /\ r.body.inner \in {"na", "items"}
           /\ r.body.limit = None
           /\ r.body.extra = "none" }

\* params read from a dict at module level, which the invocation that built
\* its parameters first still holds
ModuleLevelParams(cs, id) ==
    LET built == {j \in DOMAIN cs : cs[j].pc = "built"}
    IN  cs[CHOOSE j \in built : \A k \in built : j <= k].params

\* params, url and headers are local variables of the running call
LocalParams(cs, id) == cs[id].params

\* async with httpx.AsyncClient() as client: a new client for this call
OpenClient(cl, id) == cl \cup {[owner |-> id, state |-> "open"]}

\* the client closed after the return statement only
CloseClientOnReturn(cl, id, outcome) ==
    { IF k.owner = id /\ outcome.state = "returned"
      THEN [k EXCEPT !.state = "closed"] ELSE k : k \in cl }

\* leaving the async with block, by return or by exception
CloseClient(cl, id, outcome) ==
    { IF k.owner = id THEN [k EXCEPT !.state = "closed"] ELSE k : k \in cl }

ConcurrentInit ==
    /\ calls = [id \in Ids |-> IdleInvocation]
    /\ clients = {}
    /\ inv = IdleInvocation
    /\ c_module = "dokument"
    /\ c_value = None
    /\ c_fmt = FmtText
    /\ c_first = NoResult
    /\ c_second = NoResult
    /\ c_pc = "unused"

\* a caller invokes a tool while others may be in progress
Invoke(id) ==
    /\ calls[id].pc = "idle"
    /\ \E c \in ConcurrentCalls : calls' = [calls EXCEPT ![id] = c]
    /\ UNCHANGED <<clients, url_vars, inv>>

\* the call builds its url, params and headers and awaits the log call, or
\* ends before that
Build(id) ==
    /\ calls[id].pc = "called"
    /\ LET p == Prepared(calls[id])
       IN  calls' = [calls EXCEPT ![id] =
                        IF p.pc = "done" THEN p
                        ELSE [@ EXCEPT !.pc = "built", !.url = p.url, !.params = p.params,
                                       !.accept = p.accept, !.timeout = p.timeout]]
    /\ UNCHANGED <<clients, url_vars, inv>>

\* the call opens its client and awaits the GET
Send(id) ==
    /\ calls[id].pc = "built"
    /\ calls' = [calls EXCEPT ![id] =
                    Get(@, @.url, LocalParams(calls, id), @.accept, @.timeout)]
    /\ clients' = OpenClient(clients, id)
    /\ UNCHANGED <<url_vars, inv>>

\* the upstream answers and the call runs to its end
Receive(id) ==
    /\ calls[id].pc = "awaiting"
    /\ \E r \in ConcurrentResponses(calls[id].tool) :
          /\ calls' = [calls EXCEPT ![id] = Responded(@, r)]
          /\ clients' = CloseClient(clients, id, calls'[id].outcome)
    /\ UNCHANGED <<url_vars, inv>>

\* the GET fails to connect or times out
TimeOut(id) ==
    /\ calls[id].pc = "awaiting"
    /\ calls' = [calls EXCEPT ![id] = End(@, Raise("TransportError"))]
    /\ clients' = CloseClient(clients, id, calls'[id].outcome)
    /\ UNCHANGED <<url_vars, inv>>

ConcurrentNext ==
    \E id \in Ids : Invoke(id) \/ Build(id) \/ Send(id) \/ Receive(id) \/ TimeOut(id)

SpecConcurrent == ConcurrentInit /\ [][ConcurrentNext]_vars

-----------------------------------------------------------------------------
(* Properties of overlapping invocations, under SpecConcurrent *)

\* the invocation as it is when nothing else runs: up to its GET
Alone(c) == Prepared(Called(c.tool, c.args))

\* C22: whatever else is in progress, the request an invocation makes is the
\* one its own arguments give, and its result is the one its own arguments
\* and its own answer give.
C22_InvocationsIndependent ==
    \A id \in Ids :
        LET c == calls[id]
        IN  /\ c.pc = "built" =>
                  /\ c.url = Alone(c).url /\ c.params = Alone(c).params
                  /\ c.accept = Alone(c).accept /\ c.timeout = Alone(c).timeout
            /\ c.pc = "awaiting" => c = Alone(c)
            /\ (c.pc = "done" /\ c.response # NoResponse)
                  => c = Responded(Alone(c), c.response)
            /\ (c.pc = "done" /\ c.response = NoResponse)
                  => (c = Alone(c) \/ c = End(Alone(c), Raise("TransportError")))

\* two invocations of different tools wait for their answers at the same time
C22_Witness ==
    /\ calls[1].pc = "awaiting" /\ calls[1].tool = "list_documents"
    /\ calls[2].pc = "awaiting" /\ calls[2].tool = "get_taxeringsenhet_typkod"
    /\ calls[1].params # calls[2].params

\* the clients an invocation opened
ClientsOf(id) == {k \in clients : k.owner = id}

\* C23: an invocation that reached its GET opened one client of its own, the
\* client is open while the invocation waits and closed once it has ended,
\* however it ended, and an invocation that ended before its GET opened none.
C23_OwnClientClosedAtEnd ==
    \A id \in Ids :
        LET c == calls[id]
        IN  /\ Cardinality(ClientsOf(id)) = (IF c.requests > 0 THEN 1 ELSE 0)
            /\ c.pc = "awaiting" =>
                  (ClientsOf(id) = {[owner |-> id, state |-> "open"]} /\ c.client = "open")
            /\ c.pc = "done" =>
                  /\ \A k \in ClientsOf(id) : k.state = "closed"
                  /\ c.client # "open"

\* one invocation ended on a status error with its client closed while the
\* other still waits on its own open client
C23_Witness ==
    /\ calls[1].pc = "done" /\ calls[1].outcome = Raise("HTTPStatusError")
    /\ ClientsOf(1) = {[owner |-> 1, state |-> "closed"]}
    /\ calls[2].pc = "awaiting"
    /\ ClientsOf(2) = {[owner |-> 2, state |-> "open"]}

-----------------------------------------------------------------------------
(* Specification of the canonicalizer alone: apply it, then apply it again *)

UrlInit ==
    /\ c_module \in Modules
    /\ c_value \in References
    /\ c_fmt \in Fmts
    /\ c_first = NoResult
    /\ c_second = NoResult
    /\ c_pc = "input"
    /\ inv = IdleInvocation
    /\ calls = NoCalls
    /\ clients = {}

Canonicalize ==
    /\ c_pc = "input"
    /\ c_first' = normalize_document_url(c_module, c_value, c_fmt)
    /\ c_pc' = "once"
    /\ UNCHANGED <<c_module, c_value, c_fmt, c_second, inv, conc_vars>>

Recanonicalize ==
    /\ c_pc = "once"
    /\ ~c_first.raised
    /\ c_second' = normalize_document_url(c_module, Str(c_first.url), c_fmt)
    /\ c_pc' = "twice"
    /\ UNCHANGED <<c_module, c_value, c_fmt, c_first, inv, conc_vars>>

UrlNext == Canonicalize \/ Recanonicalize

SpecUrl == UrlInit /\ [][UrlNext]_vars

-----------------------------------------------------------------------------
(* Properties of the canonicalizer, under SpecUrl *)

\* the URL the first four branches resolve the reference to
ResolvedUrl == ResolveReference(c_value.s, c_fmt)

Canonicalized == c_pc \in {"once", "twice"} /\ ~c_first.raised

DotFmt == <<".">> \o c_fmt

\* C2: canonicalizing the result of a canonicalization for the same format
\* gives that result again.
C2_Idempotent == c_pc = "twice" => ~c_second.raised /\ c_second.url = c_first.url

\* C3: a reference whose resolved URL has the /dokument/ segment and ends in
\* the legacy .txt comes back with .txt replaced by the requested format's
\* extension: no .txt is left and no extension is doubled.
C3_LegacyTxtCoerced ==
    (Canonicalized /\ Contains(ResolvedUrl, DokumentSegment)
        /\ EndsWith(ResolvedUrl, DotTxt))
    => c_first.url = SubSeq(ResolvedUrl, 1, Len(ResolvedUrl) - 4) \o DotFmt

\* C4: a reference whose resolved URL has the /dokument/ segment and ends in
\* .text, .html or .json comes back as the same URL with that last extension
\* replaced by the requested format's, also when it already had that format.
C4_KnownExtensionReplaced ==
    (Canonicalized /\ Contains(ResolvedUrl, DokumentSegment)
        /\ \E e \in {DotText, DotHtml, DotJson} : EndsWith(ResolvedUrl, e))
    => c_first.url = SubSeq(ResolvedUrl, 1, Len(ResolvedUrl) - 5) \o DotFmt

\* a protocol-relative .html reference asked for as json has been converted
C4_Witness ==
    /\ c_pc = "once"
    /\ c_value = Str(<<"/", "/", "h", "/", "d", "o", "k", "u", "m", "e", "n", "t",
                       "/", "H", "D", ".", "h", "t", "m", "l">>)
    /\ c_fmt = FmtJson
    /\ c_first = Returned(<<"h", "t", "t", "p", "s", ":", "/", "/", "h", "/", "d",
                            "o", "k", "u", "m", "e", "n", "t", "/", "H", "D", ".",
                            "j", "s", "o", "n">>)

\* C9: canonicalizing an empty or null reference raises for every format and
\* returns no URL.
C9_EmptyReferenceRaises ==
    (c_pc # "input" /\ (c_value = None \/ c_value = EmptyStr))
    => c_first.raised /\ c_first.url = <<>>

\* the empty string has been canonicalized, and it raised
C9_Witness == c_pc = "once" /\ c_value = EmptyStr /\ c_first.raised

\* a reference that is neither absolute, protocol-relative nor root-relative
BareIdentifier ==
    /\ Truthy(c_value)
    /\ ~StartsWith(c_value.s, HttpPrefix)
    /\ ~StartsWith(c_value.s, HttpsPrefix)
    /\ ~StartsWith(c_value.s, <<"/">>)

\* C16: a bare identifier is resolved to exactly the document base URL, the
\* identifier, a dot and the requested format.
C16_BareIdentifierResolved ==
    (c_pc # "input" /\ BareIdentifier)
    => c_first = Returned(DOCUMENT_BASE_URL \o c_value.s \o DotFmt)

\* the identifier HD.txt asked for as json keeps its own extension before .json
C16_Witness ==
    /\ c_pc = "once"
    /\ c_value = Str(<<"H", "D", ".", "t", "x", "t">>)
    /\ c_fmt = FmtJson
    /\ c_first = Returned(DOCUMENT_BASE_URL
                          \o <<"H", "D", ".", "t", "x", "t", ".", "j", "s", "o", "n">>)

ProtocolRelative == IsStr(c_value) /\ StartsWith(c_value.s, <<"/", "/">>)

RootRelative ==
    IsStr(c_value) /\ StartsWith(c_value.s, <<"/">>) /\ ~ProtocolRelative

\* a reference without its last extension, when that is .txt or a format's
PathBeforeExtension(s) ==
    IF EndsWith(s, DotTxt) THEN SubSeq(s, 1, Len(s) - 4)
    ELSE IF EndsWith(s, DotText) \/ EndsWith(s, DotHtml) \/ EndsWith(s, DotJson)
    THEN SubSeq(s, 1, Len(s) - 5)
    ELSE s

\* the reference under a prefix, as it is or with its last extension replaced
PrefixedBy(prefix, s) ==
    {prefix \o s} \cup {prefix \o PathBeforeExtension(s) \o <<".">> \o f : f \in Fmts}

\* C17: a reference that begins with // gets only the https: scheme in front
\* and never the origin; a reference that begins with a single / gets the
\* origin in front; in both the host and path up to the extension are kept.
C17_ProtocolRelativeGetsScheme ==
    c_pc # "input" =>
        /\ ProtocolRelative =>
              /\ ~c_first.raised
              /\ c_first.url \in PrefixedBy(HttpsScheme, c_value.s)
              /\ ~StartsWith(c_first.url, DataOrigin)
        /\ RootRelative =>
              /\ ~c_first.raised
              /\ c_first.url \in PrefixedBy(DataOrigin, c_value.s)

\* //h/x/HD.html asked for as json: the scheme in front, nothing else changed
C17_Witness ==
    /\ c_pc = "once"
    /\ c_value = Str(<<"/", "/", "h", "/", "x", "/", "H", "D", ".", "h", "t", "m", "l">>)
    /\ c_fmt = FmtJson
    /\ c_first = Returned(HttpsScheme \o c_value.s)

\* C18: for a non-empty reference and any format the canonicalizer does not
\* raise and returns one URL that begins with http:// or https://.
C18_AlwaysAbsoluteUrl ==
    (c_pc # "input" /\ Truthy(c_value)) =>
        /\ ~c_first.raised
        /\ StartsWith(c_first.url, HttpPrefix) \/ StartsWith(c_first.url, HttpsPrefix)

\* C18, purity: canonicalizing changes neither its inputs nor any invocation
C18_NoEffect ==
    [][/\ c_value' = c_value /\ c_fmt' = c_fmt /\ c_module' = c_module
       /\ inv' = inv /\ conc_vars' = conc_vars]_vars

\* the root-relative /HD.pdf has been given the origin
C18_Witness ==
    /\ c_pc = "once"
    /\ c_value = Str(<<"/", "H", "D", ".", "p", "d", "f">>)
    /\ c_first = Returned(DataOrigin \o c_value.s)

\* C29 over every enumerated reference: both canonicalizers give the same
\* result
C29_CanonicalizersAgree ==
    c_pc # "input" =>
        /\ c_first = dokument_normalize_document_url(c_value, c_fmt)
        /\ c_first = kalender_normalize_document_url(c_value, c_fmt)

====
